---- MODULE Spec2Model ----
(***************************************************************************)
(* Model of the subtitle engine of electron-srt-generator                  *)
(* (electron/services/elevenlabs.ts, class SRTProcessor):                  *)
(*   generateSRT  -> convertToSRTFormat -> adjustTiming                    *)
(*                                                                         *)
(* Strings are sequences of one-character strings, so that formatting,     *)
(* join/split, trim and the regular expressions of adjustTiming are        *)
(* computed character by character as the code computes them.              *)
(* Times are JavaScript numbers of seconds in the code; the model keeps    *)
(* them as whole ticks, TicksPerMs ticks to the millisecond, with exact    *)
(* arithmetic (IEEE-754 rounding is not modelled).                         *)
(***************************************************************************)
EXTENDS Integers, Sequences, FiniteSets

(***************************************************************************)
(* Bounds of the model                                                     *)
(***************************************************************************)
\* longest word list drawn from the general pool
MaxWords == 3
\* resolution of a time value: ticks per millisecond
TicksPerMs == 2

TicksPerSecond == 1000 * TicksPerMs

\* a time given in milliseconds, in ticks
Ms(n) == n * TicksPerMs
\* 100 hours, in milliseconds
HundredHoursMs == 100 * 3600 * 1000

(***************************************************************************)
(* JavaScript values                                                       *)
(***************************************************************************)
\* the value `undefined` where a string is expected (a one-element sequence
\* that no string of characters equals)
Undefined == <<"undefined">>
\* the value `null` of currentSubtitle
Null == [index |-> 0, start |-> 0, end |-> 0, text |-> Undefined, speaker |-> Undefined]

\* truthiness of a string-or-undefined value
Truthy(s) == s # Undefined /\ s # <<>>

DigitChars == <<"0", "1", "2", "3", "4", "5", "6", "7", "8", "9">>
IsDigit(c) == \E d \in 1..10 : DigitChars[d] = c
DigitValue(c) == (CHOOSE d \in 1..10 : DigitChars[d] = c) - 1
\* \s of a regular expression and the characters String.prototype.trim strips
IsSpace(c) == c \in {" ", "\t", "\n", "\r"}

\* Number.prototype.toString for a non-negative integer
RECURSIVE ToString(_)
ToString(n) ==
  IF n < 10 THEN <<DigitChars[n + 1]>>
  ELSE ToString(n \div 10) \o <<DigitChars[(n % 10) + 1]>>

\* String.prototype.padStart(width, c)
RECURSIVE PadStart(_, _, _)
PadStart(s, width, c) ==
  IF Len(s) >= width THEN s ELSE PadStart(<<c>> \o s, width, c)

RECURSIVE TrimStart(_)
TrimStart(s) ==
  IF s # <<>> /\ IsSpace(Head(s)) THEN TrimStart(Tail(s)) ELSE s

RECURSIVE TrimEnd(_)
TrimEnd(s) ==
  IF s # <<>> /\ IsSpace(s[Len(s)]) THEN TrimEnd(SubSeq(s, 1, Len(s) - 1)) ELSE s

\* String.prototype.trim
Trim(s) == TrimEnd(TrimStart(s))

\* Array.prototype.join('\n')
RECURSIVE Join(_)
Join(ls) ==
  IF ls = <<>> THEN <<>>
  ELSE IF Len(ls) = 1 THEN ls[1]
  ELSE ls[1] \o <<"\n">> \o Join(Tail(ls))

\* the position in s of its k-th "\n"; 0 for k = 0 and Len(s) + 1 past the last
Separator(s, k) ==
  LET at == { p \in 1..Len(s) : s[p] = "\n" }
  IN IF k = 0 THEN 0
     ELSE IF k > Cardinality(at) THEN Len(s) + 1
     ELSE CHOOSE p \in at : Cardinality({ q \in at : q < p }) = k - 1

\* String.prototype.split('\n'): the pieces between the separators, one
\* piece (the empty string) for the empty string
Split(s) ==
  LET n == Cardinality({ p \in 1..Len(s) : s[p] = "\n" })
  IN [ k \in 1..(n + 1) |->
         SubSeq(s, Separator(s, k - 1) + 1, Separator(s, k) - 1) ]

\* String.prototype.includes
Includes(s, sub) ==
  \E p \in 1..(Len(s) - Len(sub) + 1) : SubSeq(s, p, p + Len(sub) - 1) = sub

\* /^\d+$/.test(s)
IsIndexLine(s) == s # <<>> /\ \A p \in 1..Len(s) : IsDigit(s[p])

(***************************************************************************)
(* Time codec                                                              *)
(***************************************************************************)
formatTime_Rounding(seconds) ==
  LET hours == seconds \div (3600 * TicksPerSecond)
      minutes == (seconds % (3600 * TicksPerSecond)) \div (60 * TicksPerSecond)
      secs == (seconds % (60 * TicksPerSecond)) \div TicksPerSecond
      milliseconds == ((seconds % TicksPerSecond) * 1000 + TicksPerSecond \div 2)
                        \div TicksPerSecond
  IN PadStart(ToString(hours), 2, "0") \o <<":">>
     \o PadStart(ToString(minutes), 2, "0") \o <<":">>
     \o PadStart(ToString(secs), 2, "0") \o <<",">>
     \o PadStart(ToString(milliseconds), 3, "0")

\* SRTProcessor.formatTime: Math.floor of each field
formatTime(seconds) ==
  LET hours == seconds \div (3600 * TicksPerSecond)
      minutes == (seconds % (3600 * TicksPerSecond)) \div (60 * TicksPerSecond)
      secs == (seconds % (60 * TicksPerSecond)) \div TicksPerSecond
      milliseconds == ((seconds % TicksPerSecond) * 1000) \div TicksPerSecond
  IN PadStart(ToString(hours), 2, "0") \o <<":">>
     \o PadStart(ToString(minutes), 2, "0") \o <<":">>
     \o PadStart(ToString(secs), 2, "0") \o <<",">>
     \o PadStart(ToString(milliseconds), 3, "0")

(***************************************************************************)
(* Input of generateSRT: transcriptionData.words, transcriptionData.speakers*)
(***************************************************************************)
\* a number field that the word object does not have
Missing == 0 - 1

\* `x || 0` for a number field
OrZero(x) == IF x = Missing THEN 0 ELSE x
\* `x || ''` for a string field
OrEmpty(s) == IF Truthy(s) THEN s ELSE <<>>

\* speakerMap.get(id) after the forEach of generateSRT: the last entry of
\* speakers with that id decides; its name, or `Speaker ${id}` when the name
\* is empty or absent; undefined when no entry has the id
RECURSIVE speakerMapGet(_, _)
speakerMapGet(speakers, id) ==
  IF speakers = <<>> THEN Undefined
  ELSE LET speaker == speakers[Len(speakers)]
       IN IF speaker.id = id
          THEN IF Truthy(speaker.name) THEN speaker.name
               ELSE <<"S", "p", "e", "a", "k", "e", "r", " ">> \o speaker.id
          ELSE speakerMapGet(SubSeq(speakers, 1, Len(speakers) - 1), id)

\* the 2 second gap of generateSRT
GapThreshold == 2 * TicksPerSecond

(***************************************************************************)
(* generateSRT: the condition that starts a new subtitle                   *)
(***************************************************************************)
shouldStartNew_GapInclusive(currentSubtitle, speakerId, wordStart, characterLimit) ==
  \/ currentSubtitle = Null
  \/ Truthy(speakerId) /\ currentSubtitle.speaker # speakerId
  \/ wordStart - currentSubtitle.end >= GapThreshold
  \/ Len(currentSubtitle.text) > characterLimit

shouldStartNew_LimitInclusive(currentSubtitle, speakerId, wordStart, characterLimit) ==
  \/ currentSubtitle = Null
  \/ Truthy(speakerId) /\ currentSubtitle.speaker # speakerId
  \/ wordStart - currentSubtitle.end > GapThreshold
  \/ Len(currentSubtitle.text) >= characterLimit

shouldStartNew_NoLimit(currentSubtitle, speakerId, wordStart, characterLimit) ==
  \/ currentSubtitle = Null
  \/ Truthy(speakerId) /\ currentSubtitle.speaker # speakerId
  \/ wordStart - currentSubtitle.end > GapThreshold

shouldStartNew(currentSubtitle, speakerId, wordStart, characterLimit) ==
  \/ currentSubtitle = Null
  \/ Truthy(speakerId) /\ currentSubtitle.speaker # speakerId
  \/ wordStart - currentSubtitle.end > GapThreshold
  \/ Len(currentSubtitle.text) > characterLimit

(***************************************************************************)
(* convertToSRTFormat                                                      *)
(***************************************************************************)
Arrow == <<" ", "-", "-", ">", " ">>

\* the lines pushed for one subtitle
subtitleLines(subtitle) ==
  LET startTime == formatTime(subtitle.start)
      endTime == formatTime(subtitle.end)
      trimmed == Trim(subtitle.text)
      text == IF Truthy(subtitle.speaker)
              THEN <<"[">> \o subtitle.speaker \o <<"]", " ">> \o trimmed
              ELSE trimmed
  IN << ToString(subtitle.index), startTime \o Arrow \o endTime, text, <<>> >>

RECURSIVE srtLines(_)
srtLines(subtitles) ==
  IF subtitles = <<>> THEN <<>>
  ELSE subtitleLines(Head(subtitles)) \o srtLines(Tail(subtitles))

convertToSRTFormat(subtitles) == Join(srtLines(subtitles))

(***************************************************************************)
(* adjustTiming: the regular expressions                                   *)
(***************************************************************************)
\* \d{2}:\d{2}:\d{2},\d{3} matches s at position p
TimestampAt(s, p) ==
  /\ p >= 1
  /\ p + 11 <= Len(s)
  /\ \A d \in {0, 1, 3, 4, 6, 7, 9, 10, 11} : IsDigit(s[p + d])
  /\ s[p + 2] = ":"
  /\ s[p + 5] = ":"
  /\ s[p + 8] = ","

\* the position after \s* applied at position p
RECURSIVE SkipSpaces(_, _)
SkipSpaces(s, p) ==
  IF p <= Len(s) /\ IsSpace(s[p]) THEN SkipSpaces(s, p + 1) ELSE p

ArrowAt(s, p) == p + 2 <= Len(s) /\ SubSeq(s, p, p + 2) = <<"-", "-", ">">>

\* (\d{2}:\d{2}:\d{2},\d{3})\s*-->\s*(\d{2}:\d{2}:\d{2},\d{3}) matches s
\* with its first group at position p
TimingAt(s, p) ==
  /\ TimestampAt(s, p)
  /\ LET q == SkipSpaces(s, p + 12)
     IN ArrowAt(s, q) /\ TimestampAt(s, SkipSpaces(s, q + 3))

\* timingLine.match(/(ts)\s*-->\s*(ts)/): the two groups of the leftmost
\* match, or the empty tuple for null
timingMatch(timingLine) ==
  IF \E p \in 1..Len(timingLine) : TimingAt(timingLine, p)
  THEN LET p == CHOOSE x \in 1..Len(timingLine) :
                  /\ TimingAt(timingLine, x)
                  /\ \A y \in 1..(x - 1) : ~TimingAt(timingLine, y)
           e == SkipSpaces(timingLine, SkipSpaces(timingLine, p + 12) + 3)
       IN << SubSeq(timingLine, p, p + 11), SubSeq(timingLine, e, e + 11) >>
  ELSE <<>>

\* nextTimingLine.match(/(ts)/): the group of the leftmost match, or the
\* empty tuple for null
nextTimingMatch(nextTimingLine) ==
  IF \E p \in 1..Len(nextTimingLine) : TimestampAt(nextTimingLine, p)
  THEN LET p == CHOOSE x \in 1..Len(nextTimingLine) :
                  /\ TimestampAt(nextTimingLine, x)
                  /\ \A y \in 1..(x - 1) : ~TimestampAt(nextTimingLine, y)
       IN << SubSeq(nextTimingLine, p, p + 11) >>
  ELSE <<>>

\* `line && line.includes('-->')` for lines[n], undefined past the end
HasArrow(lines, n) ==
  n <= Len(lines) /\ lines[n] # <<>> /\ Includes(lines[n], <<"-", "-", ">">>)

(***************************************************************************)
(* parseTime                                                               *)
(***************************************************************************)
\* parseTime has thrown `Invalid time format`, or has returned the time t
InvalidTimeFormat == [none |-> FALSE, thrown |-> TRUE]
Parsed(t) == [none |-> FALSE, thrown |-> FALSE, value |-> t]

\* parseInt(digits, 10)
RECURSIVE parseInt(_)
parseInt(ds) ==
  IF ds = <<>> THEN 0
  ELSE 10 * parseInt(SubSeq(ds, 1, Len(ds) - 1)) + DigitValue(ds[Len(ds)])

\* SRTProcessor.parseTime: the groups of the leftmost match of
\* /(\d{2}):(\d{2}):(\d{2}),(\d{3})/ anywhere in the string
parseTime(timeString) ==
  IF \E p \in 1..Len(timeString) : TimestampAt(timeString, p)
  THEN LET p == CHOOSE x \in 1..Len(timeString) :
                  /\ TimestampAt(timeString, x)
                  /\ \A y \in 1..(x - 1) : ~TimestampAt(timeString, y)
           hours == parseInt(SubSeq(timeString, p, p + 1))
           minutes == parseInt(SubSeq(timeString, p + 3, p + 4))
           secs == parseInt(SubSeq(timeString, p + 6, p + 7))
           milliseconds == parseInt(SubSeq(timeString, p + 9, p + 11))
       IN Parsed((hours * 3600 + minutes * 60 + secs) * TicksPerSecond
                 + milliseconds * TicksPerMs)
  ELSE InvalidTimeFormat

(***************************************************************************)
(* adjustTiming: the loops (positions are 1-based: lines[i] of the code is *)
(* lines[i + 1] here)                                                      *)
(***************************************************************************)
\* the inner loop over j: the position of the first blank line at or after
\* j, or Len(lines) + 1
RECURSIVE textEnd(_, _)
textEnd(lines, j) ==
  IF j <= Len(lines) /\ Trim(lines[j]) # <<>> THEN textEnd(lines, j + 1) ELSE j

\* the inner loop over k: the next subtitle's start time, or Undefined
RECURSIVE findNextStartTime(_, _)
findNextStartTime(lines, k) ==
  IF k > Len(lines) THEN Undefined
  ELSE IF /\ IsIndexLine(Trim(lines[k]))
          /\ HasArrow(lines, k + 1)
          /\ nextTimingMatch(lines[k + 1]) # <<>>
       THEN nextTimingMatch(lines[k + 1])[1]
       ELSE findNextStartTime(lines, k + 1)

\* the outer loop over i
RECURSIVE adjustLoop(_, _, _)
adjustLoop(lines, i, adjustedLines) ==
  IF i > Len(lines) THEN adjustedLines
  ELSE LET line == Trim(lines[i])
       IN IF IsIndexLine(line)
          THEN IF HasArrow(lines, i + 1)
               THEN LET timingLine == lines[i + 1]
                        j == textEnd(lines, i + 2)
                        textLines == SubSeq(lines, i + 2, j - 1)
                        m == timingMatch(timingLine)
                    IN IF m # <<>>
                       THEN LET startTime == m[1]
                                nextStartTime == findNextStartTime(lines, j + 1)
                                endTime == IF Truthy(nextStartTime)
                                           THEN nextStartTime ELSE m[2]
                            IN adjustLoop(lines, j,
                                 adjustedLines
                                   \o << line, startTime \o Arrow \o endTime >>
                                   \o textLines \o << <<>> >>)
                       ELSE adjustLoop(lines, j, adjustedLines)
               ELSE adjustLoop(lines, i + 1, adjustedLines)
          ELSE adjustLoop(lines, i + 1, adjustedLines)

adjustTiming_TrailingNewline(srtContent) ==
  Join(adjustLoop(Split(srtContent), 1, <<>>)) \o <<"\n">>

adjustTiming(srtContent) == Join(adjustLoop(Split(srtContent), 1, <<>>))

(***************************************************************************)
(* Inputs                                                                  *)
(***************************************************************************)
SpkA == <<"A">>
SpkB == <<"B">>
Spk1 == <<"s", "p", "k", "1">>
Spk2 == <<"s", "p", "k", "2">>

\* word.word: absent (the declared response type names the field `text`),
\* or a two-letter word
Texts == { Undefined, <<"a", "b">> }

\* word.speaker_id: absent or one of two ids
SpeakerIds == { Undefined, SpkA, SpkB }

\* <<start, end>> of a word, in ticks: a short word at 0; a word that lasts
\* until the 100th hour; a word starting exactly 2.0 s after the first one
\* ends; a word starting one tick later than that; a word in the 100th hour
\* ending between two milliseconds
Intervals ==
  { << Ms(0), Ms(200) >>,
    << Ms(200), Ms(HundredHoursMs) >>,
    << Ms(2200), Ms(3000) >>,
    << Ms(2200) + 1, Ms(3200) >>,
    << Ms(HundredHoursMs), Ms(HundredHoursMs) + TicksPerMs - 1 >> }

Words ==
  { [word |-> t, start |-> iv[1], end |-> iv[2], speaker_id |-> sp] :
      t \in Texts, iv \in Intervals, sp \in SpeakerIds }

\* transcriptionData.speakers: no entry; A named as its id and B without a
\* name; A and B with the same display name
SpeakerTables ==
  { <<>>,
    << [id |-> SpkA, name |-> SpkA], [id |-> SpkB, name |-> <<>>] >>,
    << [id |-> SpkA, name |-> <<"J", "o">>], [id |-> SpkB, name |-> <<"J", "o">>] >> }

CharLimits == { 2, 50 }

\* word lists of the pool, each word starting later than the one before it
WordLists ==
  UNION { { ws \in [1..n -> Words] :
              \A k \in 1..(n - 1) : ws[k].start < ws[k + 1].start } :
          n \in 0..MaxWords }

GeneralInputs ==
  { [words |-> ws, speakers |-> tb, characterLimit |-> cl] :
      ws \in WordLists, tb \in SpeakerTables, cl \in CharLimits }

W(text, startMs, endMs, sp) ==
  [word |-> text, start |-> Ms(startMs), end |-> Ms(endMs), speaker_id |-> sp]

\* section 8 of the specification, scenarios A to D
ScenarioAWords ==
  << W(<<"h", "i">>, 0, 500, Spk1), W(<<"t", "h", "e", "r", "e">>, 500, 1000, Spk1) >>
ScenarioATables ==
  { <<>>,
    << [id |-> Spk1, name |-> <<>>] >>,
    << [id |-> Spk1, name |-> Spk1] >>,
    << [id |-> Spk1, name |-> <<"A", "n", "n">>] >> }
ScenarioBWords ==
  << W(<<"h", "i">>, 0, 500, Spk1), W(<<"b", "y", "e">>, 500, 1000, Spk2) >>
ScenarioCWords ==
  << W(<<"a">>, 0, 200, Undefined), W(<<"b">>, 3000, 3200, Undefined) >>
ScenarioDWords ==
  << W(<<"a", "b">>, 0, 1000, Undefined), W(<<"c", "d">>, 1000, 2000, Undefined) >>
\* two words with the same start
TieWords ==
  << W(<<"a", "b">>, 0, 200, Undefined), W(<<"a", "b">>, 0, 500, SpkA) >>
\* a long word and a short word that starts while the long one lasts
OverlapWords ==
  << W(<<"a", "b">>, 0, 5000, Undefined), W(<<"c", "d">>, 1000, 1200, SpkA) >>
\* scenario A without speaker ids
PlainAWords ==
  << W(<<"h", "i">>, 0, 500, Undefined), W(<<"t", "h", "e", "r", "e">>, 500, 1000, Undefined) >>

\* scenario A as the words of ElevenLabsTranscriptionResponse declare it: the
\* text of a word in its `text` field, and no `word` field
ResponseWords ==
  << [text |-> <<"h", "i">>, word |-> Undefined,
      start |-> Ms(0), end |-> Ms(500), speaker_id |-> Undefined],
     [text |-> <<"t", "h", "e", "r", "e">>, word |-> Undefined,
      start |-> Ms(500), end |-> Ms(1000), speaker_id |-> Undefined] >>

\* a speaker table in which the display name of spk1 is the id of spk2
CrossNamedTable == << [id |-> Spk1, name |-> Spk2] >>

ScenarioInputs ==
  { [words |-> ResponseWords, speakers |-> <<>>, characterLimit |-> 50],
    [words |-> ScenarioBWords, speakers |-> CrossNamedTable, characterLimit |-> 50] }
  \cup
  { [words |-> ws, speakers |-> tb, characterLimit |-> 50] :
      ws \in { ScenarioAWords, ScenarioBWords }, tb \in ScenarioATables }
  \cup { [words |-> ws, speakers |-> <<>>, characterLimit |-> cl] :
           ws \in { ScenarioCWords, ScenarioDWords, PlainAWords, TieWords, OverlapWords },
           cl \in { 3, 50 } }

Inputs == GeneralInputs \cup ScenarioInputs

\* times handed to formatTime on its own: hours up to 100, every field at
\* its least and greatest value, on and between milliseconds
TimeSamples ==
  { Ms(h * 3600000 + m * 60000 + sec * 1000 + ms) + sub :
      h \in { 0, 1, 99, 100 }, m \in { 0, 59 }, sec \in { 0, 59 },
      ms \in { 0, 1, 999 }, sub \in { 0, TicksPerMs - 1 } }

\* strings handed to parseTime on its own: no timestamp at all, a field too
\* short, a wrong separator, and a timestamp with a character before or
\* after it
TimeStrings ==
  { <<>>,
    <<"a", "b">>,
    <<"0", ":", "0", "0", ":", "0", "1", ",", "0", "0", "0">>,
    <<"0", "0", ":", "0", "0", ":", "0", "1", ".", "0", "0", "0">>,
    <<"0", "0", ":", "0", "0", ":", "0", "1", ",", "0", "0">>,
    <<"x", "0", "0", ":", "0", "0", ":", "0", "1", ",", "0", "0", "0">>,
    <<"0", "0", ":", "0", "0", ":", "0", "1", ",", "0", "0", "0", "0">>,
    <<"0", "0", ":", "0", "0", ":", "0", "1", ",", "0", "0", "0", " ", "-", "-", ">">> }

(***************************************************************************)
(* State                                                                   *)
(***************************************************************************)
VARIABLES
  words,            \* transcriptionData.words
  speakers,         \* transcriptionData.speakers
  characterLimit,   \* the characterLimit argument
  pc,               \* position in processSRT: "generate", "adjust", "done", "idle"
  i,                \* position of the for loop of generateSRT (1-based)
  subtitles,        \* generateSRT: subtitles
  currentSubtitle,  \* generateSRT: currentSubtitle, Null when null
  subtitleIndex,    \* generateSRT: subtitleIndex
  srtContent,       \* processSRT: srtContent
  adjustedSRT,      \* processSRT: adjustedSRT
  members,          \* history: members[k] = the positions in words of the
                    \* words the for loop has placed in the subtitle of index k
  seconds,          \* formatTime: its argument
  timeString,       \* formatTime: its result
  codecPc,          \* "format", "formatted", "parse", "parsed", "idle"
  parsed,           \* parseTime: what it has returned or thrown
  mainPc,           \* position in handleTranscriptionStart
  mainWindow,       \* MainProcess.mainWindow is not null
  transcriptionResult, \* what transcribeFile has returned
  thrown,           \* the error on its way to the catch of the handler
  failedAt,         \* history: the stage that has thrown, "none" when none
  sent,             \* the messages sent to the renderer, oldest first
  outputFile,       \* the content of the file at outputPath, NoFile when none
  filePath,         \* request.filePath, the inputFilePath of processSRT
  outputPath,       \* processSRT: outputPath, Undefined until it is created
  disk,             \* history: for every path of the output directory, the
                    \* input file whose subtitles the file there holds
  rendererPc,       \* useTranscription: "idle", "invoked", "unavailable"
  isTranscribing,   \* useTranscription: isTranscribing
  result,           \* useTranscription: result, None when null
  delivered,        \* how many of the messages sent the renderer has handled
  config,           \* ConfigManager.config
  configFile,       \* the parsed content of config.json, NoFile when none
  secureFile,       \* the content of secure/elevenlabs_api_key.enc
  reply,            \* what the last 'config:get' has returned to the renderer
  lastUpdates,      \* history: the argument of the last saveConfig
  updateStatus,     \* UpdateManager.updateStatus
  updateWindow,     \* UpdateManager.mainWindow is not null
  checkPc,          \* checkForUpdates: "idle", "awaiting", "resolved", "rejected"
  downloadPc,       \* downloadUpdate: "idle", "awaiting", "resolved", "rejected"
  statusSent,       \* the 'update-status' messages of the last handler run
  handled           \* history: the handler of UpdateManager that ran last

vars == << words, speakers, characterLimit, pc, i, subtitles, currentSubtitle,
           subtitleIndex, srtContent, adjustedSRT, members,
           seconds, timeString, codecPc, parsed,
           mainPc, mainWindow, transcriptionResult, thrown, failedAt, sent, outputFile,
           filePath, outputPath, disk,
           rendererPc, isTranscribing, result, delivered,
           config, configFile, secureFile, reply, lastUpdates,
           updateStatus, updateWindow, checkPc, downloadPc, statusSent, handled >>

engineVars == << words, speakers, characterLimit, pc, i, subtitles, currentSubtitle,
                 subtitleIndex, srtContent, adjustedSRT, members >>
codecVars == << seconds, timeString, codecPc, parsed >>
rendererVars == << rendererPc, isTranscribing, result, delivered >>
mainVars == << mainPc, mainWindow, transcriptionResult, thrown, failedAt, sent,
              outputFile, filePath, outputPath, disk, rendererVars >>
configVars == << config, configFile, secureFile, reply, lastUpdates >>
updateVars == << updateStatus, updateWindow, checkPc, downloadPc, statusSent,
                handled >>

\* no file at a path, and a file with the content c
NoFile == [exists |-> FALSE]
File(c) == [exists |-> TRUE, content |-> c]
\* no value returned or thrown yet, and the value v
None == [none |-> TRUE]
Some(v) == [none |-> FALSE, value |-> v]

\* DEFAULT_CONFIG, of which the model keeps the key and the character limit
DefaultCharLimit == 30
DEFAULT_CONFIG == [elevenlabs_api_key |-> <<>>, default_char_limit |-> DefaultCharLimit]

\* UpdateManager.updateStatus as the class initializes it
InitialUpdateStatus ==
  [checking |-> FALSE, available |-> FALSE, downloading |-> FALSE,
   downloaded |-> FALSE, error |-> Undefined, info |-> Undefined,
   progress |-> Undefined]

\* the position of the last c in s, 0 when there is none
LastIndexOf(s, c) ==
  IF \E p \in 1..Len(s) : s[p] = c
  THEN CHOOSE p \in 1..Len(s) : s[p] = c /\ \A q \in (p + 1)..Len(s) : s[q] # c
  ELSE 0

\* path.extname(p): from the last "." of the last segment on, empty when
\* there is none or when it is the segment's first character
extname(p) ==
  LET base == SubSeq(p, LastIndexOf(p, "/") + 1, Len(p))
      dot == LastIndexOf(base, ".")
  IN IF dot <= 1 THEN <<>> ELSE SubSeq(base, dot, Len(base))

\* path.basename(p, ext): the last segment, without ext when it ends with it
basename(p, ext) ==
  LET base == SubSeq(p, LastIndexOf(p, "/") + 1, Len(p))
      n == Len(base) - Len(ext)
  IN IF ext # <<>> /\ n > 0 /\ SubSeq(base, n + 1, Len(base)) = ext
     THEN SubSeq(base, 1, n)
     ELSE base

\* ConfigManager.getOutputDirectory()
OutputDirectory == << "/", "o" >>

\* FileProcessor.createOutputPath
createOutputPath(inputFilePath) ==
  LET inputName == basename(inputFilePath, extname(inputFilePath))
  IN OutputDirectory \o <<"/">> \o inputName \o << ".", "s", "r", "t" >>

\* input files of the requests: one name in two directories, one name with
\* two extensions, and another name
InputFiles ==
  { << "/", "a", "/", "t", ".", "m", "p", "3" >>,
    << "/", "b", "/", "t", ".", "m", "p", "3" >>,
    << "/", "a", "/", "t", ".", "w", "a", "v" >>,
    << "/", "a", "/", "u", ".", "m", "p", "3" >> }

OutputPaths == { createOutputPath(f) : f \in InputFiles }

\* the file that processSRT has written for the input file `from`
Written(content, from) == [exists |-> TRUE, content |-> content, from |-> from]
\* the output directory before any processSRT
EmptyDisk == [p \in OutputPaths |-> NoFile]

\* the engine with no processSRT under way
IdleEngine ==
  /\ words = <<>>
  /\ speakers = <<>>
  /\ characterLimit = 50
  /\ pc = "idle"
  /\ i = 1
  /\ subtitles = <<>>
  /\ currentSubtitle = Null
  /\ subtitleIndex = 1
  /\ srtContent = <<>>
  /\ adjustedSRT = <<>>
  /\ members = <<>>

IdleCodec ==
  /\ seconds = 0
  /\ timeString = <<>>
  /\ codecPc = "idle"
  /\ parsed = None

\* the hook useTranscription after its first render
IdleRenderer ==
  /\ rendererPc = "idle"
  /\ isTranscribing = FALSE
  /\ result = None
  /\ delivered = 0

\* the main process with a window and no transcription under way
IdleMain ==
  /\ mainPc = "idle"
  /\ mainWindow = TRUE
  /\ transcriptionResult = None
  /\ thrown = None
  /\ failedAt = "none"
  /\ sent = <<>>
  /\ outputFile = NoFile
  /\ filePath = Undefined
  /\ outputPath = Undefined
  /\ disk = EmptyDisk
  /\ IdleRenderer

\* a ConfigManager constructed without config.json and without stored key
IdleConfig ==
  /\ config = DEFAULT_CONFIG
  /\ configFile = NoFile
  /\ secureFile = NoFile
  /\ reply = None
  /\ lastUpdates = None

\* the UpdateManager after its constructor
IdleUpdate ==
  /\ updateStatus = InitialUpdateStatus
  /\ updateWindow = FALSE
  /\ checkPc = "idle"
  /\ downloadPc = "idle"
  /\ statusSent = <<>>
  /\ handled = [name |-> "constructor", arg |-> None]

\* processSRT called with one input: generateSRT has set up its locals
Init ==
  /\ \E in \in Inputs :
       /\ words = in.words
       /\ speakers = in.speakers
       /\ characterLimit = in.characterLimit
  /\ pc = "generate"
  /\ i = 1
  /\ subtitles = <<>>
  /\ currentSubtitle = Null
  /\ subtitleIndex = 1
  /\ srtContent = <<>>
  /\ adjustedSRT = <<>>
  /\ members = <<>>
  /\ seconds = 0
  /\ timeString = <<>>
  /\ codecPc = "idle"
  /\ parsed = None
  /\ IdleMain
  /\ IdleConfig
  /\ IdleUpdate

pushCurrent_Drops(list, current) == list

\* `if (currentSubtitle) subtitles.push(currentSubtitle)`
pushCurrent(list, current) ==
  IF current # Null THEN Append(list, current) ELSE list

\* one iteration of the for loop of generateSRT
ProcessWord ==
  /\ pc = "generate"
  /\ i <= Len(words)
  /\ LET word == words[i]
         wordText == OrEmpty(word.word)
         wordStart == OrZero(word.start)
         wordEnd == OrZero(word.end)
         speakerId == word.speaker_id
     IN IF shouldStartNew(currentSubtitle, speakerId, wordStart, characterLimit)
        THEN /\ subtitles' = pushCurrent(subtitles, currentSubtitle)
             /\ currentSubtitle' =
                  [index |-> subtitleIndex,
                   start |-> wordStart,
                   end |-> wordEnd,
                   text |-> wordText,
                   speaker |-> IF Truthy(speakerId)
                               THEN speakerMapGet(speakers, speakerId)
                               ELSE Undefined]
             /\ subtitleIndex' = subtitleIndex + 1
             /\ members' = Append(members, << i >>)
        ELSE /\ currentSubtitle' =
                  [currentSubtitle EXCEPT !.text = @ \o <<" ">> \o wordText,
                                          !.end = wordEnd]
             /\ members' = [members EXCEPT ![Len(members)] = Append(@, i)]
             /\ UNCHANGED << subtitles, subtitleIndex >>
  /\ i' = i + 1
  /\ UNCHANGED << words, speakers, characterLimit, pc, srtContent, adjustedSRT >>
  /\ UNCHANGED << codecVars, mainVars, configVars, updateVars >>

\* the end of generateSRT: the final subtitle and convertToSRTFormat
FinishGenerate ==
  /\ pc = "generate"
  /\ i > Len(words)
  /\ subtitles' = pushCurrent(subtitles, currentSubtitle)
  /\ srtContent' = convertToSRTFormat(subtitles')
  /\ pc' = "adjust"
  /\ UNCHANGED << words, speakers, characterLimit, i, currentSubtitle,
                  subtitleIndex, adjustedSRT, members >>
  /\ UNCHANGED << codecVars, mainVars, configVars, updateVars >>

\* processSRT: adjustedSRT = this.adjustTiming(srtContent)
AdjustTiming ==
  /\ pc = "adjust"
  /\ adjustedSRT' = adjustTiming(srtContent)
  /\ pc' = "done"
  /\ UNCHANGED << words, speakers, characterLimit, i, subtitles, currentSubtitle,
                  subtitleIndex, srtContent, members >>
  /\ UNCHANGED << codecVars, mainVars, configVars, updateVars >>

Next == ProcessWord \/ FinishGenerate \/ AdjustTiming

Spec == Init /\ [][Next]_vars

(***************************************************************************)
(* processSRT on word lists in which a word lacks its start or its end     *)
(***************************************************************************)
\* times of the words of such lists, as << start, end >>; Missing stands for
\* an absent field
LooseIntervals ==
  { << 0, Ms(200) >>, << Ms(3000), Ms(3200) >>,
    << Missing, Ms(200) >>, << 0, Missing >>, << Missing, Missing >>,
    << Ms(3000), Missing >>, << Missing, Ms(3200) >> }

LooseWords ==
  { [word |-> <<"a", "b">>, start |-> iv[1], end |-> iv[2], speaker_id |-> Undefined] :
      iv \in LooseIntervals }

\* a word without start or without end
LacksTime(w) == w.start = Missing \/ w.end = Missing

\* word lists of one word or more, one of the words at least lacking a time
MalformedLists ==
  UNION { { ws \in [1..n -> LooseWords] : \E k \in 1..n : LacksTime(ws[k]) } :
          n \in 1..MaxWords }

InitMalformed ==
  /\ words \in MalformedLists
  /\ speakers = <<>>
  /\ characterLimit \in CharLimits
  /\ pc = "generate"
  /\ i = 1
  /\ subtitles = <<>>
  /\ currentSubtitle = Null
  /\ subtitleIndex = 1
  /\ srtContent = <<>>
  /\ adjustedSRT = <<>>
  /\ members = <<>>
  /\ seconds = 0
  /\ timeString = <<>>
  /\ codecPc = "idle"
  /\ parsed = None
  /\ IdleMain
  /\ IdleConfig
  /\ IdleUpdate

SpecMalformed == InitMalformed /\ [][Next]_vars

(***************************************************************************)
(* formatTime and parseTime on their own                                   *)
(***************************************************************************)
InitCodec ==
  /\ words = <<>>
  /\ speakers = <<>>
  /\ characterLimit = 50
  /\ pc = "idle"
  /\ i = 1
  /\ subtitles = <<>>
  /\ currentSubtitle = Null
  /\ subtitleIndex = 1
  /\ srtContent = <<>>
  /\ adjustedSRT = <<>>
  /\ members = <<>>
  /\ \/ seconds \in TimeSamples /\ timeString = <<>> /\ codecPc = "format"
     \/ seconds = 0 /\ timeString \in TimeStrings /\ codecPc = "parse"
  /\ parsed = None
  /\ IdleMain
  /\ IdleConfig
  /\ IdleUpdate

FormatTime ==
  /\ codecPc = "format"
  /\ timeString' = formatTime(seconds)
  /\ codecPc' = "formatted"
  /\ UNCHANGED << seconds, parsed >>
  /\ UNCHANGED << engineVars, mainVars, configVars, updateVars >>

\* parseTime applied to a string handed to it, or to what formatTime returned
ParseTime ==
  /\ codecPc \in { "parse", "formatted" }
  /\ parsed' = parseTime(timeString)
  /\ codecPc' = "parsed"
  /\ UNCHANGED << seconds, timeString >>
  /\ UNCHANGED << engineVars, mainVars, configVars, updateVars >>

NextCodec == FormatTime \/ ParseTime

SpecCodec == InitCodec /\ [][NextCodec]_vars

(***************************************************************************)
(* handleTranscriptionStart of the main process around processSRT          *)
(***************************************************************************)
\* a `words` value that is set and is not an array
NotAnArray == [object |-> TRUE]
IsArray(x) == x # NotAnArray /\ x # Undefined

\* what transcribeFile can return: it has checked that `words` is set
TranscriptionResults ==
  { [words |-> ws, speakers |-> <<>>] :
      ws \in { NotAnArray, <<>>, PlainAWords, ScenarioCWords } }

\* the characterLimit of the request
RequestLimits == { 2, 50 }
\* the filePath of the request
RequestFiles ==
  { << "/", "a", "/", "t", ".", "m", "p", "3" >>,
    << "/", "a", "/", "u", ".", "m", "p", "3" >> }

\* error messages
InvalidFileMessage ==
  << "I", "n", "v", "a", "l", "i", "d", " ", "f", "i", "l", "e", " ", "f",
     "o", "r", "m", "a", "t", " ", "o", "r", " ", "f", "i", "l", "e", " ",
     "i", "s", " ", "c", "o", "r", "r", "u", "p", "t", "e", "d" >>
NetworkErrorMessage ==
  << "N", "e", "t", "w", "o", "r", "k", " ", "e", "r", "r", "o", "r", ".",
     " ", "P", "l", "e", "a", "s", "e", " ", "c", "h", "e", "c", "k", " ",
     "y", "o", "u", "r", " ", "i", "n", "t", "e", "r", "n", "e", "t", " ",
     "c", "o", "n", "n", "e", "c", "t", "i", "o", "n", "." >>
OutputDirectoryMessage ==
  << "U", "n", "a", "b", "l", "e", " ", "t", "o", " ", "c", "r", "e", "a",
     "t", "e", " ", "o", "r", " ", "a", "c", "c", "e", "s", "s", " ", "o",
     "u", "t", "p", "u", "t", " ", "d", "i", "r", "e", "c", "t", "o", "r",
     "y" >>
MissingWordsMessage ==
  << "I", "n", "v", "a", "l", "i", "d", " ", "t", "r", "a", "n", "s", "c",
     "r", "i", "p", "t", "i", "o", "n", " ", "d", "a", "t", "a", ":", " ",
     "m", "i", "s", "s", "i", "n", "g", " ", "w", "o", "r", "d", "s", " ",
     "a", "r", "r", "a", "y" >>
NoSpaceMessage ==
  << "E", "N", "O", "S", "P", "C", ":", " ", "n", "o", " ", "s", "p", "a",
     "c", "e", " ", "l", "e", "f", "t", " ", "o", "n", " ", "d", "e", "v",
     "i", "c", "e", ",", " ", "w", "r", "i", "t", "e" >>
SRTFailedPrefix ==
  << "S", "R", "T", " ", "p", "r", "o", "c", "e", "s", "s", "i", "n", "g",
     " ", "f", "a", "i", "l", "e", "d", ":", " " >>
SRTFailedInfo ==
  << "S", "R", "T", " ", "p", "r", "o", "c", "e", "s", "s", "i", "n", "g",
     " ", "f", "a", "i", "l", "e", "d" >>
FileNotFoundInfo == << "F", "i", "l", "e", " ", "n", "o", "t", " ", "f", "o", "u", "n", "d" >>
PermissionDeniedInfo ==
  << "P", "e", "r", "m", "i", "s", "s", "i", "o", "n", " ", "d", "e", "n",
     "i", "e", "d" >>
UnexpectedInfo ==
  << "A", "n", " ", "u", "n", "e", "x", "p", "e", "c", "t", "e", "d", " ",
     "e", "r", "r", "o", "r", " ", "o", "c", "c", "u", "r", "r", "e", "d" >>

DevelopmentModeMessage ==
  << "T", "r", "a", "n", "s", "c", "r", "i", "p", "t", "i", "o", "n", " ",
     "n", "o", "t", " ", "a", "v", "a", "i", "l", "a", "b", "l", "e", " ",
     "i", "n", " ", "d", "e", "v", "e", "l", "o", "p", "m", "e", "n", "t",
     " ", "m", "o", "d", "e" >>

\* new Error(message), and an error of the file system with its code
Error(message) == [code |-> Undefined, message |-> message]
NoEntryError == [code |-> <<"E", "N", "O", "E", "N", "T">>, message |-> FileNotFoundInfo]

\* the catch of processSRT: new Error(`SRT processing failed: ${error.message}`)
SRTProcessingFailed(error) == Error(SRTFailedPrefix \o error.message)

\* ErrorHandler.getErrorInfo(error).message, for errors without a response
getErrorInfo(error) ==
  IF error.code = <<"E", "N", "O", "E", "N", "T">> THEN FileNotFoundInfo
  ELSE IF error.code = <<"E", "A", "C", "C", "E", "S">> THEN PermissionDeniedInfo
  ELSE IF Includes(error.message, <<"S", "R", "T">>) THEN SRTFailedInfo
  ELSE IF error.message # <<>> THEN error.message
  ELSE UnexpectedInfo

\* this.mainWindow?.webContents.send(channel, payload)
Send(channel, payload) ==
  IF mainWindow THEN << [channel |-> channel, payload |-> payload] >> ELSE << >>
sendProgress_Flat(stage, percentage) ==
  Send("transcription:progress", [stage |-> stage, percentage |-> 50])
sendProgress(stage, percentage) ==
  Send("transcription:progress", [stage |-> stage, percentage |-> percentage])
\* sendComplete({ success: true, srtPath })
sendComplete(srtPath) == Send("transcription:complete", srtPath)
sendError_AsComplete(message) == Send("transcription:complete", message)
sendError_Silent(message) == << >>
sendError(message) == Send("transcription:error", message)

\* before 'transcription:start': the window is open, the output file of an
\* earlier run may exist
InitMain ==
  /\ IdleEngine
  /\ IdleCodec
  /\ IdleConfig
  /\ IdleUpdate
  /\ mainPc = "idle"
  /\ mainWindow = TRUE
  /\ transcriptionResult = None
  /\ thrown = None
  /\ failedAt = "none"
  /\ sent = <<>>
  /\ outputFile \in { NoFile, File(<<"o", "l", "d">>) }
  /\ filePath = Undefined
  /\ outputPath = Undefined
  /\ disk = EmptyDisk
  /\ IdleRenderer

\* useTranscription.startTranscription up to its await: without the preload
\* API it reports a failure at once, with it it sets its state and invokes
\* 'transcription:start'
StartTranscription ==
  /\ rendererPc = "idle"
  /\ mainWindow
  /\ \/ /\ rendererPc' = "unavailable"
        /\ isTranscribing' = FALSE
        /\ result' = [success |-> FALSE, error |-> DevelopmentModeMessage]
     \/ /\ rendererPc' = "invoked"
        /\ isTranscribing' = TRUE
        /\ result' = None
  /\ UNCHANGED delivered
  /\ UNCHANGED << mainPc, mainWindow, transcriptionResult, thrown, failedAt, sent,
                  outputFile, filePath, outputPath, disk >>
  /\ UNCHANGED << engineVars, codecVars, configVars, updateVars >>

\* the renderer handles the next message: handleProgress, handleComplete or
\* handleError of useTranscription
HandleMessage ==
  /\ mainWindow
  /\ delivered < Len(sent)
  /\ delivered' = delivered + 1
  /\ LET m == sent[delivered + 1]
     IN IF m.channel = "transcription:progress"
        THEN UNCHANGED << isTranscribing, result >>
        ELSE /\ isTranscribing' = FALSE
             /\ result' = IF m.channel = "transcription:complete"
                           THEN [success |-> TRUE, srtPath |-> m.payload]
                           ELSE [success |-> FALSE, error |-> m.payload]
  /\ UNCHANGED rendererPc
  /\ UNCHANGED << mainPc, mainWindow, transcriptionResult, thrown, failedAt, sent,
                  outputFile, filePath, outputPath, disk >>
  /\ UNCHANGED << engineVars, codecVars, configVars, updateVars >>

\* the main window is closed: this.mainWindow = null
WindowClosed ==
  /\ mainWindow
  /\ mainWindow' = FALSE
  /\ UNCHANGED << mainPc, transcriptionResult, thrown, failedAt, sent, outputFile,
                  filePath, outputPath, disk >>
  /\ UNCHANGED rendererVars
  /\ UNCHANGED << engineVars, codecVars, configVars, updateVars >>

\* 'transcription:start' arrives; stage 1 up to the await of validateFile
TranscriptionStart ==
  /\ mainPc = "idle"
  /\ rendererPc = "invoked"
  /\ \E cl \in RequestLimits : characterLimit' = cl
  /\ \E f \in RequestFiles : filePath' = f
  /\ sent' = sent \o sendProgress("validation", 10)
  /\ mainPc' = "validate"
  /\ UNCHANGED << mainWindow, transcriptionResult, thrown, failedAt, outputFile,
                  outputPath, disk >>
  /\ UNCHANGED rendererVars
  /\ UNCHANGED << words, speakers, pc, i, subtitles, currentSubtitle,
                  subtitleIndex, srtContent, adjustedSRT, members >>
  /\ UNCHANGED << codecVars, configVars, updateVars >>

\* validateFile settles: true, or one of its errors; stage 2 up to the await
\* of transcribeFile
ValidateFile ==
  /\ mainPc = "validate"
  /\ \/ /\ sent' = sent \o sendProgress("upload", 30)
        /\ mainPc' = "upload"
        /\ UNCHANGED << thrown, failedAt >>
     \/ /\ \E e \in { Error(InvalidFileMessage), NoEntryError } : thrown' = e
        /\ failedAt' = "validation"
        /\ mainPc' = "catch"
        /\ UNCHANGED sent
  /\ UNCHANGED << mainWindow, transcriptionResult, outputFile, filePath,
                  outputPath, disk >>
  /\ UNCHANGED rendererVars
  /\ UNCHANGED << engineVars, codecVars, configVars, updateVars >>

\* transcribeFile settles: a result, or one of its errors; stages 3 and 4 up
\* to the await in processSRT
TranscribeFile ==
  /\ mainPc = "upload"
  /\ \/ /\ \E r \in TranscriptionResults : transcriptionResult' = r
        /\ sent' = sent \o sendProgress("processing", 70)
                        \o sendProgress("srt-generation", 90)
        /\ mainPc' = "processSRT"
        /\ UNCHANGED << thrown, failedAt >>
     \/ /\ thrown' = Error(NetworkErrorMessage)
        /\ failedAt' = "upload"
        /\ mainPc' = "catch"
        /\ UNCHANGED << transcriptionResult, sent >>
  /\ UNCHANGED << mainWindow, outputFile, filePath, outputPath, disk >>
  /\ UNCHANGED rendererVars
  /\ UNCHANGED << engineVars, codecVars, configVars, updateVars >>

\* processSRT from ensureOutputDirectory to the check of generateSRT on
\* `words`, with the locals of generateSRT set up when it passes
BeginProcessSRT ==
  /\ mainPc = "processSRT"
  /\ pc = "idle"
  /\ \/ /\ thrown' = SRTProcessingFailed(Error(OutputDirectoryMessage))
        /\ failedAt' = "directory"
        /\ mainPc' = "catch"
        /\ UNCHANGED << words, speakers, pc >>
     \/ /\ ~IsArray(transcriptionResult.words)
        /\ thrown' = SRTProcessingFailed(Error(MissingWordsMessage))
        /\ failedAt' = "generation"
        /\ mainPc' = "catch"
        /\ UNCHANGED << words, speakers, pc >>
     \/ /\ IsArray(transcriptionResult.words)
        /\ words' = transcriptionResult.words
        /\ speakers' = transcriptionResult.speakers
        /\ pc' = "generate"
        /\ UNCHANGED << thrown, failedAt, mainPc >>
  /\ UNCHANGED << mainWindow, transcriptionResult, sent, outputFile, filePath,
                  outputPath, disk >>
  /\ UNCHANGED rendererVars
  /\ UNCHANGED << characterLimit, i, subtitles, currentSubtitle, subtitleIndex,
                  srtContent, adjustedSRT, members >>
  /\ UNCHANGED << codecVars, configVars, updateVars >>

\* processSRT: createOutputPath, writeFileSync(outputPath, adjustedSRT) and
\* the return; then stage 5 and sendComplete. A write that fails leaves the
\* file as it was, empty, or with a part of the text.
WriteFile ==
  /\ mainPc = "processSRT"
  /\ pc = "done"
  /\ outputPath' = createOutputPath(filePath)
  /\ \/ /\ outputFile' = File(adjustedSRT)
        /\ disk' = [disk EXCEPT ![outputPath'] = Written(adjustedSRT, filePath)]
        /\ sent' = sent \o sendProgress("complete", 100) \o sendComplete(outputPath')
        /\ mainPc' = "finished"
        /\ UNCHANGED << thrown, failedAt >>
     \/ /\ \/ outputFile' = outputFile
           \/ \E n \in 0..(Len(adjustedSRT) - 1) :
                outputFile' = File(SubSeq(adjustedSRT, 1, n))
        /\ thrown' = SRTProcessingFailed(Error(NoSpaceMessage))
        /\ failedAt' = "write"
        /\ mainPc' = "catch"
        /\ UNCHANGED << sent, disk >>
  /\ UNCHANGED << mainWindow, transcriptionResult, filePath >>
  /\ UNCHANGED rendererVars
  /\ UNCHANGED << engineVars, codecVars, configVars, updateVars >>

\* the catch of handleTranscriptionStart
CatchError ==
  /\ mainPc = "catch"
  /\ sent' = sent \o sendError(getErrorInfo(thrown))
  /\ mainPc' = "finished"
  /\ UNCHANGED << mainWindow, transcriptionResult, thrown, failedAt, outputFile,
                  filePath, outputPath, disk >>
  /\ UNCHANGED rendererVars
  /\ UNCHANGED << engineVars, codecVars, configVars, updateVars >>

NextMain ==
  \/ StartTranscription
  \/ HandleMessage
  \/ WindowClosed
  \/ TranscriptionStart
  \/ ValidateFile
  \/ TranscribeFile
  \/ BeginProcessSRT
  \/ ProcessWord
  \/ FinishGenerate
  \/ AdjustTiming
  \/ WriteFile
  \/ CatchError

SpecMain == InitMain /\ [][NextMain]_vars

(***************************************************************************)
(* processSRT called for one input file after the other                    *)
(***************************************************************************)
\* the transcriptions handed to processSRT
OutputTranscriptions == { PlainAWords, ScenarioCWords }

InitOutput ==
  /\ IdleEngine
  /\ IdleCodec
  /\ IdleMain
  /\ IdleConfig
  /\ IdleUpdate

\* processSRT is called: ensureOutputDirectory has passed and generateSRT
\* has set up its locals
ProcessSRT ==
  /\ mainPc = "idle"
  /\ pc = "idle"
  /\ \E f \in InputFiles : filePath' = f
  /\ \E ws \in OutputTranscriptions : words' = ws
  /\ speakers' = <<>>
  /\ characterLimit' = 50
  /\ pc' = "generate"
  /\ i' = 1
  /\ subtitles' = <<>>
  /\ currentSubtitle' = Null
  /\ subtitleIndex' = 1
  /\ srtContent' = <<>>
  /\ adjustedSRT' = <<>>
  /\ members' = <<>>
  /\ outputPath' = Undefined
  /\ UNCHANGED << mainPc, mainWindow, transcriptionResult, thrown, failedAt, sent,
                  outputFile, disk, rendererVars >>
  /\ UNCHANGED << codecVars, configVars, updateVars >>

\* processSRT: createOutputPath, writeFileSync(outputPath, adjustedSRT) and
\* the return
WriteOutput ==
  /\ mainPc = "idle"
  /\ pc = "done"
  /\ outputPath' = createOutputPath(filePath)
  /\ disk' = [disk EXCEPT ![outputPath'] = Written(adjustedSRT, filePath)]
  /\ pc' = "idle"
  /\ UNCHANGED << words, speakers, characterLimit, i, subtitles, currentSubtitle,
                  subtitleIndex, srtContent, adjustedSRT, members >>
  /\ UNCHANGED << mainPc, mainWindow, transcriptionResult, thrown, failedAt, sent,
                  outputFile, filePath, rendererVars >>
  /\ UNCHANGED << codecVars, configVars, updateVars >>

NextOutput ==
  \/ ProcessSRT
  \/ ProcessWord
  \/ FinishGenerate
  \/ AdjustTiming
  \/ WriteOutput

SpecOutput == InitOutput /\ [][NextOutput]_vars

(***************************************************************************)
(* ConfigManager and SecureStorage behind 'config:get' and 'config:save'   *)
(***************************************************************************)
\* API keys: empty, blank, and two keys
ApiKeys == { <<>>, <<" ">>, <<"k", "1">>, <<"k", "2">> }

\* values of default_char_limit in an update
SavedLimits == { DefaultCharLimit, 50 }

\* the updates of a saveConfig call: each of the two fields present or not
\* (Undefined and Missing stand for a field that is not in the update)
UpdatesOf(key, limit) ==
  [f \in (IF key = Undefined THEN {} ELSE { "elevenlabs_api_key" })
           \cup (IF limit = Missing THEN {} ELSE { "default_char_limit" }) |->
     IF f = "elevenlabs_api_key" THEN key ELSE limit]

Updates ==
  { UpdatesOf(key, limit) :
      key \in ApiKeys \cup { Undefined }, limit \in SavedLimits \cup { Missing } }

\* { ...a, ...b }
Spread(a, b) ==
  [f \in DOMAIN a \cup DOMAIN b |-> IF f \in DOMAIN b THEN b[f] ELSE a[f]]

\* delete object[field]
Delete(object, field) == [f \in DOMAIN object \ { field } |-> object[f]]

\* generateMasterKey() on this machine, and the key of another machine
MasterKey == "this machine"
ForeignKey == "another machine"

\* the initialization vectors crypto.randomBytes can give
IVs == { 1, 2 }

\* SecureStorage.encrypt: the IV followed by the AES-256-CBC ciphertext, which
\* is not the value and gives it back only under the key and IV it was made with
encrypt(value, masterKey, iv) ==
  [iv |-> iv, data |-> [algorithm |-> "aes-256-cbc", key |-> masterKey,
                        iv |-> iv, of |-> value]]

\* SecureStorage.decrypt: the value, or Undefined where it throws
decrypt(encryptedValue, masterKey) ==
  IF encryptedValue.data.key = masterKey /\ encryptedValue.data.iv = encryptedValue.iv
  THEN encryptedValue.data.of
  ELSE Undefined

\* SecureStorage.retrieveSecureValue: null (here Undefined) without file or
\* when decrypt throws
retrieveSecureValue(file, masterKey) ==
  IF ~file.exists THEN Undefined ELSE decrypt(file.content, masterKey)

\* SecureStorage.storeSecureValue: the file after the call
storeSecureValue(file, value, masterKey, iv) ==
  IF ~Truthy(value) \/ Trim(value) = <<>> THEN file
  ELSE File(encrypt(value, masterKey, iv))

\* SecureStorage.removeSecureValue: the file after the call
removeSecureValue(file) == NoFile

\* ConfigManager.loadConfig
loadConfig(file, secure) ==
  LET fromFile == IF file.exists THEN Spread(DEFAULT_CONFIG, file.content)
                  ELSE DEFAULT_CONFIG
      secureApiKey == retrieveSecureValue(secure, MasterKey)
  IN IF Truthy(secureApiKey) /\ secureApiKey # <<>>
     THEN [fromFile EXCEPT !["elevenlabs_api_key"] = secureApiKey]
     ELSE fromFile

\* saveConfig: what goes to JSON.stringify, the key deleted from the copy
configToSave_WithKey(newConfig) == newConfig
configToSave(newConfig) == Delete(newConfig, "elevenlabs_api_key")

\* saveConfig: the secure file after the handling of the key of the update
secureAfterSave(file, updates, iv) ==
  IF "elevenlabs_api_key" \notin DOMAIN updates THEN file
  ELSE IF Trim(updates["elevenlabs_api_key"]) = <<>> THEN removeSecureValue(file)
  ELSE storeSecureValue(file, updates["elevenlabs_api_key"], MasterKey, iv)

\* the files a ConfigManager can find when it is constructed: config.json
\* as an earlier saveConfig has left it, the key file made on this machine
\* or on another
InitConfig ==
  /\ IdleEngine
  /\ IdleCodec
  /\ IdleMain
  /\ IdleUpdate
  /\ configFile \in { NoFile, File([default_char_limit |-> 50]) }
  /\ secureFile \in { NoFile, File(encrypt(<<"k", "1">>, MasterKey, 1)),
                      File(encrypt(<<"k", "1">>, ForeignKey, 1)) }
  /\ config = loadConfig(configFile, secureFile)
  /\ reply = None
  /\ lastUpdates = None

\* 'config:save': handleSaveConfig and saveConfig
SaveConfig ==
  \E updates \in Updates, iv \in IVs :
    /\ config' = Spread(config, updates)
    /\ secureFile' = secureAfterSave(secureFile, updates, iv)
    /\ configFile' = File(configToSave(config'))
    /\ lastUpdates' = Some(updates)
    /\ UNCHANGED reply
    /\ UNCHANGED << engineVars, codecVars, mainVars, updateVars >>

\* 'config:get': handleGetConfig returns getConfig() to the renderer
GetConfig ==
  /\ reply' = Some(config)
  /\ UNCHANGED << config, configFile, secureFile, lastUpdates >>
  /\ UNCHANGED << engineVars, codecVars, mainVars, updateVars >>

\* the application is started again: the constructor of ConfigManager
Restart ==
  /\ config' = loadConfig(configFile, secureFile)
  /\ reply' = None
  /\ UNCHANGED << configFile, secureFile, lastUpdates >>
  /\ UNCHANGED << engineVars, codecVars, mainVars, updateVars >>

NextConfig == SaveConfig \/ GetConfig \/ Restart

SpecConfig == InitConfig /\ [][NextConfig]_vars

(***************************************************************************)
(* UpdateManager: the listeners on autoUpdater, checkForUpdates and        *)
(* downloadUpdate                                                          *)
(***************************************************************************)
\* errors of the updater, and a rejection with a value that is no Error
UpdateErrors ==
  { [isError |-> TRUE, message |-> "Network error"],
    [isError |-> TRUE, message |-> "Download failed"] }
Rejections == UpdateErrors \cup { [isError |-> FALSE, message |-> "timeout"] }

\* the info of a release and the progress of a download
ReleaseInfos == { [version |-> "1.2.0"] }
ProgressInfos == { [percent |-> 50] }

\* the listener on 'error'
onError_KeepsDownloading(status, error) ==
  [status EXCEPT !.checking = FALSE, !.error = error.message]
onError(status, error) ==
  [status EXCEPT !.checking = FALSE, !.downloading = FALSE, !.error = error.message]

\* the catch of checkForUpdates and of downloadUpdate
onRejected_ClearsFlags(status, error) ==
  [status EXCEPT !.checking = FALSE, !.downloading = FALSE,
                 !.error = IF error.isError THEN error.message ELSE "Unknown error"]
onRejected(status, error) ==
  [status EXCEPT !.error = IF error.isError THEN error.message ELSE "Unknown error"]

\* sendUpdateStatus: the messages it sends for the status
sendUpdateStatus(status) == IF updateWindow THEN << status >> ELSE << >>

\* every handler leaves the promises and the window as they are
KeepsCalls == UNCHANGED << updateWindow, checkPc, downloadPc >>
KeepsRest == UNCHANGED << engineVars, codecVars, mainVars, configVars >>

InitUpdate ==
  /\ IdleEngine
  /\ IdleCodec
  /\ IdleMain
  /\ IdleConfig
  /\ IdleUpdate

\* setMainWindow(window)
SetMainWindow ==
  /\ updateWindow' = TRUE
  /\ statusSent' = <<>>
  /\ handled' = [name |-> "setMainWindow", arg |-> None]
  /\ UNCHANGED << updateStatus, checkPc, downloadPc >>
  /\ KeepsRest

\* 'checking-for-update'
CheckingForUpdate ==
  /\ updateStatus' = [updateStatus EXCEPT !.checking = TRUE, !.error = Undefined]
  /\ statusSent' = sendUpdateStatus(updateStatus')
  /\ handled' = [name |-> "checking-for-update", arg |-> None]
  /\ KeepsCalls
  /\ KeepsRest

\* 'update-available'
UpdateAvailable ==
  \E info \in ReleaseInfos :
    /\ updateStatus' = [updateStatus EXCEPT !.checking = FALSE, !.available = TRUE,
                                            !.info = info]
    /\ statusSent' = sendUpdateStatus(updateStatus')
    /\ handled' = [name |-> "update-available", arg |-> Some(info)]
    /\ KeepsCalls
    /\ KeepsRest

\* 'update-not-available'
UpdateNotAvailable ==
  /\ updateStatus' = [updateStatus EXCEPT !.checking = FALSE, !.available = FALSE]
  /\ statusSent' = sendUpdateStatus(updateStatus')
  /\ handled' = [name |-> "update-not-available", arg |-> None]
  /\ KeepsCalls
  /\ KeepsRest

\* 'error'
ErrorEvent ==
  \E error \in UpdateErrors :
    /\ updateStatus' = onError(updateStatus, error)
    /\ statusSent' = sendUpdateStatus(updateStatus')
    /\ handled' = [name |-> "error", arg |-> Some(error)]
    /\ KeepsCalls
    /\ KeepsRest

\* 'download-progress'
DownloadProgress ==
  \E progressObj \in ProgressInfos :
    /\ updateStatus' = [updateStatus EXCEPT !.downloading = TRUE,
                                            !.progress = progressObj]
    /\ statusSent' = sendUpdateStatus(updateStatus')
    /\ handled' = [name |-> "download-progress", arg |-> Some(progressObj)]
    /\ KeepsCalls
    /\ KeepsRest

\* 'update-downloaded'
UpdateDownloaded ==
  /\ updateStatus' = [updateStatus EXCEPT !.downloading = FALSE, !.downloaded = TRUE,
                                          !.progress = Undefined]
  /\ statusSent' = sendUpdateStatus(updateStatus')
  /\ handled' = [name |-> "update-downloaded", arg |-> None]
  /\ KeepsCalls
  /\ KeepsRest

\* checkForUpdates() up to its await
CheckForUpdates ==
  /\ checkPc # "awaiting"
  /\ checkPc' = "awaiting"
  /\ statusSent' = <<>>
  /\ handled' = [name |-> "checkForUpdates", arg |-> None]
  /\ UNCHANGED << updateStatus, updateWindow, downloadPc >>
  /\ KeepsRest

\* autoUpdater.checkForUpdates() resolves
CheckResolves ==
  /\ checkPc = "awaiting"
  /\ checkPc' = "resolved"
  /\ statusSent' = <<>>
  /\ handled' = [name |-> "checkForUpdates:then", arg |-> None]
  /\ UNCHANGED << updateStatus, updateWindow, downloadPc >>
  /\ KeepsRest

\* autoUpdater.checkForUpdates() rejects: the catch
CheckRejects ==
  \E error \in Rejections :
    /\ checkPc = "awaiting"
    /\ updateStatus' = onRejected(updateStatus, error)
    /\ statusSent' = sendUpdateStatus(updateStatus')
    /\ checkPc' = "resolved"
    /\ handled' = [name |-> "checkForUpdates:catch", arg |-> Some(error)]
    /\ UNCHANGED << updateWindow, downloadPc >>
    /\ KeepsRest

\* downloadUpdate() up to its await
DownloadUpdate ==
  /\ downloadPc # "awaiting"
  /\ downloadPc' = "awaiting"
  /\ statusSent' = <<>>
  /\ handled' = [name |-> "downloadUpdate", arg |-> None]
  /\ UNCHANGED << updateStatus, updateWindow, checkPc >>
  /\ KeepsRest

\* autoUpdater.downloadUpdate() resolves
DownloadResolves ==
  /\ downloadPc = "awaiting"
  /\ downloadPc' = "resolved"
  /\ statusSent' = <<>>
  /\ handled' = [name |-> "downloadUpdate:then", arg |-> None]
  /\ UNCHANGED << updateStatus, updateWindow, checkPc >>
  /\ KeepsRest

\* autoUpdater.downloadUpdate() rejects: the catch
DownloadRejects ==
  \E error \in Rejections :
    /\ downloadPc = "awaiting"
    /\ updateStatus' = onRejected(updateStatus, error)
    /\ statusSent' = sendUpdateStatus(updateStatus')
    /\ downloadPc' = "resolved"
    /\ handled' = [name |-> "downloadUpdate:catch", arg |-> Some(error)]
    /\ UNCHANGED << updateWindow, checkPc >>
    /\ KeepsRest

NextUpdate ==
  \/ SetMainWindow
  \/ CheckingForUpdate
  \/ UpdateAvailable
  \/ UpdateNotAvailable
  \/ ErrorEvent
  \/ DownloadProgress
  \/ UpdateDownloaded
  \/ CheckForUpdates
  \/ CheckResolves
  \/ CheckRejects
  \/ DownloadUpdate
  \/ DownloadResolves
  \/ DownloadRejects

SpecUpdate == InitUpdate /\ [][NextUpdate]_vars

(***************************************************************************)
(* Reading a subtitle text back (used by the properties only)              *)
(***************************************************************************)
\* the position of the first " --> " in a line, 0 when there is none
ArrowPos(line) ==
  IF Includes(line, Arrow)
  THEN CHOOSE p \in 1..Len(line) :
         /\ p + 4 <= Len(line)
         /\ SubSeq(line, p, p + 4) = Arrow
         /\ \A q \in 1..(p - 1) : SubSeq(line, q, q + 4) # Arrow
  ELSE 0

\* the first empty line at or after position p, Len(lines) + 1 when none
RECURSIVE BlankFrom(_, _)
BlankFrom(lines, p) ==
  IF p <= Len(lines) /\ lines[p] # <<>> THEN BlankFrom(lines, p + 1) ELSE p

\* the cues of a subtitle text: an index line, a timing line, the text lines
\* up to the next empty line
RECURSIVE CuesFrom(_, _)
CuesFrom(lines, p) ==
  IF p > Len(lines) THEN <<>>
  ELSE IF IsIndexLine(lines[p]) /\ p < Len(lines) /\ ArrowPos(lines[p + 1]) > 0
       THEN LET timing == lines[p + 1]
                a == ArrowPos(timing)
                q == BlankFrom(lines, p + 2)
            IN << [index |-> lines[p],
                   start |-> SubSeq(timing, 1, a - 1),
                   end |-> SubSeq(timing, a + 5, Len(timing)),
                   text |-> SubSeq(lines, p + 2, q - 1)] >>
               \o CuesFrom(lines, q + 1)
       ELSE CuesFrom(lines, p + 1)

OutputCues(text) == CuesFrom(Split(text), 1)

\* the value of digits in base ten
RECURSIVE DigitsValue(_)
DigitsValue(ds) ==
  IF ds = <<>> THEN 0
  ELSE 10 * DigitsValue(SubSeq(ds, 1, Len(ds) - 1)) + DigitValue(ds[Len(ds)])

\* a timestamp is hours (two digits or more), minutes, seconds, milliseconds
WellFormedTimestamp(ts) ==
  /\ Len(ts) >= 12
  /\ LET n == Len(ts)
     IN /\ \A p \in 1..(n - 10) : IsDigit(ts[p])
        /\ ts[n - 9] = ":" /\ IsDigit(ts[n - 8]) /\ IsDigit(ts[n - 7])
        /\ ts[n - 6] = ":" /\ IsDigit(ts[n - 5]) /\ IsDigit(ts[n - 4])
        /\ ts[n - 3] = ","
        /\ IsDigit(ts[n - 2]) /\ IsDigit(ts[n - 1]) /\ IsDigit(ts[n])

TsHours(ts) == DigitsValue(SubSeq(ts, 1, Len(ts) - 10))
TsMinutes(ts) == DigitsValue(SubSeq(ts, Len(ts) - 8, Len(ts) - 7))
TsSeconds(ts) == DigitsValue(SubSeq(ts, Len(ts) - 5, Len(ts) - 4))
TsMillis(ts) == DigitsValue(SubSeq(ts, Len(ts) - 2, Len(ts)))

\* the time a well-formed timestamp denotes, in milliseconds
TsValueMs(ts) ==
  TsHours(ts) * 3600000 + TsMinutes(ts) * 60000 + TsSeconds(ts) * 1000 + TsMillis(ts)

(***************************************************************************)
(* Properties                                                              *)
(***************************************************************************)
\* C1 (gap closure): in the final output every cue except the last ends
\* exactly at the start timestamp of the cue that follows it.
C1_GapClosure ==
  pc = "done" =>
    LET out == OutputCues(adjustedSRT)
    IN \A k \in 1..(Len(out) - 1) : out[k].end = out[k + 1].start

\* C2 (index contiguity): the final output holds one cue for every cue the
\* segmenter created, and they carry the indices 1, 2, ..., n in that order.
C2_IndexContiguity ==
  pc = "done" =>
    LET out == OutputCues(adjustedSRT)
    IN /\ Len(out) = Len(subtitles)
       /\ \A k \in 1..Len(out) : out[k].index = ToString(k)

\* C3 (monotonic timing): the segmenter's cues have start <= end and
\* non-decreasing starts, and the cues of the stitched output still do.
C3_MonotonicTiming ==
  /\ pc \in { "adjust", "done" } =>
       /\ \A k \in 1..Len(subtitles) : subtitles[k].start <= subtitles[k].end
       /\ \A k \in 1..(Len(subtitles) - 1) :
            subtitles[k].start <= subtitles[k + 1].start
  /\ pc = "done" =>
       LET out == OutputCues(adjustedSRT)
       IN /\ \A k \in 1..Len(out) :
               TsValueMs(out[k].start) <= TsValueMs(out[k].end)
          /\ \A k \in 1..(Len(out) - 1) :
               TsValueMs(out[k].start) <= TsValueMs(out[k + 1].start)

\* the word that created the subtitle of index k
FirstWord(k) == words[members[k][1]]

\* the for loop is about to process a word while a subtitle is current
AtWordWithCurrent == pc = "generate" /\ i <= Len(words) /\ currentSubtitle # Null

\* this step of the for loop starts a new subtitle
StartsNew == subtitleIndex' = subtitleIndex + 1

\* this step of the for loop appends words[i] to the current subtitle
AppendsWord ==
  /\ subtitles' = subtitles
  /\ subtitleIndex' = subtitleIndex
  /\ currentSubtitle' =
       [currentSubtitle EXCEPT !.text = @ \o <<" ">> \o OrEmpty(words[i].word),
                               !.end = words[i].end]

\* C4, general part: a word with the speaker id of the current cue, starting
\* no more than 2.0 s after the cue's end, the cue's text no longer than
\* charLimit, is appended and no new cue is started.
C4_SameSpeakerStep ==
  ( /\ AtWordWithCurrent
    /\ Truthy(words[i].speaker_id)
    /\ words[i].speaker_id = FirstWord(Len(members)).speaker_id
    /\ words[i].start - currentSubtitle.end <= Ms(2000)
    /\ Len(currentSubtitle.text) <= characterLimit )
  => AppendsWord

\* C4, scenario A: ("hi",0.0,0.5,spk1), ("there",0.5,1.0,spk1), charLimit 50
\* give one cue "hi there" from 0.0 to 1.0, whatever the speaker table.
C4_ScenarioA ==
  ( words = ScenarioAWords /\ characterLimit = 50 /\ pc \in { "adjust", "done" } )
  => /\ Len(subtitles) = 1
     /\ subtitles[1].text = <<"h", "i", " ", "t", "h", "e", "r", "e">>
     /\ subtitles[1].start = Ms(0)
     /\ subtitles[1].end = Ms(1000)

\* C4 (same-speaker grouping): a word that carries the speaker id of the
\* current cue, within the gap and the character limit, is appended to the
\* current cue; scenario A gives exactly one cue "hi there", 0.0 to 1.0.
C4_SameSpeakerGrouping == []C4_ScenarioA /\ [][C4_SameSpeakerStep]_vars

\* C5, general part: a gap above 2.0 s always starts a new cue, and for a
\* word without speaker id and a cue within the character limit a new cue is
\* started exactly when the gap is strictly greater than 2.0 s.
C5_GapStep ==
  AtWordWithCurrent =>
    LET gap == words[i].start - currentSubtitle.end
    IN /\ gap > Ms(2000) => StartsNew
       /\ ( ~Truthy(words[i].speaker_id)
            /\ Len(currentSubtitle.text) <= characterLimit )
          => /\ StartsNew <=> gap > Ms(2000)
             /\ ~StartsNew => AppendsWord

\* C5, scenario C: ("a",0.0,0.2), ("b",3.0,3.2) give two cues; after
\* stitching cue 1 ends at 3.0 and cue 2 still ends at 3.2.
C5_ScenarioC ==
  ( words = ScenarioCWords /\ pc = "done" )
  => LET out == OutputCues(adjustedSRT)
     IN /\ Len(subtitles) = 2
        /\ Len(out) = 2
        /\ out[1].start = <<"0", "0", ":", "0", "0", ":", "0", "0", ",", "0", "0", "0">>
        /\ out[1].end = <<"0", "0", ":", "0", "0", ":", "0", "3", ",", "0", "0", "0">>
        /\ out[2].start = <<"0", "0", ":", "0", "0", ":", "0", "3", ",", "0", "0", "0">>
        /\ out[2].end = <<"0", "0", ":", "0", "0", ":", "0", "3", ",", "2", "0", "0">>

\* C5 (gap split): the gap condition fires exactly when word.start minus the
\* current cue's end is strictly greater than 2.0 s (exactly 2.0 s does not
\* split); scenario C gives two cues, stitched to end at 3.0 and at 3.2.
C5_GapSplit == []C5_ScenarioC /\ [][C5_GapStep]_vars

\* C5 witness: scenario C has been segmented into two cues and stitched.
C5_Witness ==
  /\ words = ScenarioCWords
  /\ pc = "done"
  /\ Len(subtitles) = 2
  /\ Len(OutputCues(adjustedSRT)) = 2

\* C6, general part: a cue whose text is longer than charLimit before the
\* word is appended always starts a new cue, and for a word without speaker
\* id and within the gap a new cue is started exactly when the length before
\* the append is strictly greater than charLimit.
C6_LimitStep ==
  AtWordWithCurrent =>
    LET before == Len(currentSubtitle.text)
    IN /\ before > characterLimit => StartsNew
       /\ ( ~Truthy(words[i].speaker_id)
            /\ words[i].start - currentSubtitle.end <= Ms(2000) )
          => /\ StartsNew <=> before > characterLimit
             /\ ~StartsNew => AppendsWord

\* C6, scenario D: charLimit 3, "ab" then "cd" end in the one cue "ab cd".
C6_ScenarioD ==
  ( words = ScenarioDWords /\ characterLimit = 3 /\ pc \in { "adjust", "done" } )
  => /\ Len(subtitles) = 1
     /\ subtitles[1].text = <<"a", "b", " ", "c", "d">>

ExpectedScenarioA ==
  << "1", "\n", "0", "0", ":", "0", "0", ":", "0", "0", ",", "0", "0", "0",
     " ", "-", "-", ">", " ", "0", "0", ":", "0", "0", ":", "0", "1", ",",
     "0", "0", "0", "\n", "h", "i", " ", "t", "h", "e", "r", "e", "\n",
     "\n" >>

\* C7 (serialized shape): the final output of n >= 1 cues is four lines per
\* cue, each ended by a line feed: the decimal index, the timing line, one
\* text line (possibly empty), one blank line; scenario A without speaker
\* gives exactly "1\n00:00:00,000 --> 00:00:01,000\nhi there\n\n".
C7_SerializedShape ==
  ( pc = "done" /\ Len(subtitles) >= 1 ) =>
    LET n == Len(subtitles)
        pieces == Split(adjustedSRT)
    IN /\ Len(pieces) = 4 * n + 1
       /\ pieces[4 * n + 1] = <<>>
       /\ \A k \in 1..n :
            /\ pieces[4 * k - 3] = ToString(k)
            /\ LET a == ArrowPos(pieces[4 * k - 2])
               IN /\ a > 0
                  /\ WellFormedTimestamp(SubSeq(pieces[4 * k - 2], 1, a - 1))
                  /\ WellFormedTimestamp(SubSeq(pieces[4 * k - 2], a + 5,
                                                Len(pieces[4 * k - 2])))
            /\ pieces[4 * k] = <<>>
       /\ words = PlainAWords => adjustedSRT = ExpectedScenarioA

\* the display name of a speaker id as the specification defines it: the
\* name the table holds, "Speaker {id}" when it holds no entry or no name
SpecDisplayName(table, id) ==
  LET ks == { k \in 1..Len(table) : table[k].id = id }
      last == CHOOSE k \in ks : \A other \in ks : other <= k
  IN IF ks # {} /\ Truthy(table[last].name)
     THEN table[last].name
     ELSE <<"S", "p", "e", "a", "k", "e", "r", " ">> \o id

\* C8 (speaker prefix): the text line of a cue is "[" + displayName + "] " +
\* trimmed text exactly when the word that created the cue carried a speaker
\* id, displayName being the table's name or else "Speaker {id}"; a cue
\* without speaker id has the trimmed text alone.
C8_SpeakerPrefix ==
  pc \in { "adjust", "done" } =>
    \A k \in 1..Len(subtitles) :
      LET id == FirstWord(k).speaker_id
          body == Trim(subtitles[k].text)
          textLine == Split(srtContent)[4 * k - 1]
      IN textLine = IF Truthy(id)
                    THEN <<"[">> \o SpecDisplayName(speakers, id) \o <<"]", " ">> \o body
                    ELSE body

\* C9 (empty input): an empty word list produces no cue, and both the
\* serialized and the stitched output are the empty string.
C9_EmptyInput ==
  words = <<>> =>
    /\ pc \in { "adjust", "done" } => subtitles = <<>> /\ srtContent = <<>>
    /\ pc = "done" => adjustedSRT = <<>>

\* C9 witness: the empty word list has gone through all of processSRT.
C9_Witness == words = <<>> /\ pc = "done" /\ speakers # <<>>

C11_StitcherFrame ==
  pc = "done" =>
    LET before == OutputCues(srtContent)
        after == OutputCues(adjustedSRT)
    IN /\ Len(after) = Len(before)
       /\ \A k \in 1..Len(before) :
            /\ after[k].index = before[k].index
            /\ after[k].start = before[k].start
            /\ after[k].text = before[k].text

\* C18, one step: a word whose speaker id is set and differs from the speaker
\* id of the current cue always starts a new cue; within the gap and the
\* character limit a new cue is started exactly in that case, so the same id
\* and no id never split.
C18_SpeakerStep ==
  AtWordWithCurrent =>
    LET id == words[i].speaker_id
        differs == Truthy(id) /\ id # FirstWord(Len(members)).speaker_id
    IN /\ differs => StartsNew
       /\ ( /\ words[i].start - currentSubtitle.end <= Ms(2000)
            /\ Len(currentSubtitle.text) <= characterLimit )
          => (StartsNew <=> differs)

\* C18 (speaker split): the speaker condition starts a new cue exactly when
\* the incoming word carries a speaker id that differs from the speaker id of
\* the current cue, for every speaker table.
C18_SpeakerSplit == [][C18_SpeakerStep]_vars

\* the text of the last word placed in the subtitle of index k
LastWordText(k) == OrEmpty(words[members[k][Len(members[k])]].word)

\* the sum of the lengths of the texts of the words at the positions ps
RECURSIVE TextLengths(_)
TextLengths(ps) ==
  IF ps = <<>> THEN 0
  ELSE Len(OrEmpty(words[Head(ps)].word)) + TextLengths(Tail(ps))

WordText(w) == IF "text" \in DOMAIN w THEN w.text ELSE OrEmpty(w.word)

\* the texts of the words at the positions ps, joined by one space
RECURSIVE JoinedTexts(_)
JoinedTexts(ps) ==
  IF Len(ps) = 1 THEN WordText(words[ps[1]])
  ELSE JoinedTexts(SubSeq(ps, 1, Len(ps) - 1))
         \o <<" ">> \o WordText(words[ps[Len(ps)]])

\* the cue c is built from the words at the positions ps
BuiltFrom(c, ps) ==
  /\ ps # <<>>
  /\ \A n \in 1..(Len(ps) - 1) : ps[n + 1] = ps[n] + 1
  /\ c.start = words[ps[1]].start
  /\ c.end = words[ps[Len(ps)]].end
  /\ c.text = JoinedTexts(ps)

\* C20 (cue construction): every cue starts at the start of its first word,
\* ends (before stitching) at the end of its last word, and its text is the
\* texts of its words in input order joined by exactly one space.
C20_CueConstruction ==
  /\ \A k \in 1..Len(subtitles) : BuiltFrom(subtitles[k], members[k])
  /\ currentSubtitle # Null => BuiltFrom(currentSubtitle, members[Len(members)])
  /\ pc \in { "adjust", "done" } => Len(subtitles) = Len(members)

\* C12 (InvalidInput): when a word of the input lacks its start or its end,
\* the engine fails: the loop never takes a word without a time into a cue,
\* generateSRT never returns and nothing is serialized or stitched.
C12_InvalidInput ==
  (\E k \in 1..Len(words) : LacksTime(words[k])) =>
    /\ \A k \in 1..(i - 1) : ~LacksTime(words[k])
    /\ pc = "generate"
    /\ srtContent = <<>>
    /\ adjustedSRT = <<>>

\* a message on the channel is among those sent to the renderer
Reported(channel) == \E k \in 1..Len(sent) : sent[k].channel = channel

\* generateSRT has thrown: processSRT has raised its error, nothing is
\* serialized, stitched or written, and no completion is reported
GenerationFailureKept ==
  failedAt = "generation" =>
    /\ thrown = SRTProcessingFailed(Error(MissingWordsMessage))
    /\ srtContent = <<>>
    /\ adjustedSRT = <<>>
    /\ outputFile \in { NoFile, File(<<"o", "l", "d">>) }
    /\ ~Reported("transcription:complete")
    /\ mainPc \in { "catch", "finished" }

\* C13 as stated: when SRT generation fails, processSRT raises an error, no
\* subtitle file is written, and the handler, once finished, has reported an
\* error and no completion.
C13_FailureReported ==
  /\ GenerationFailureKept
  /\ (failedAt = "generation" /\ mainPc = "finished") =>
       Reported("transcription:error")

\* C13 (failure surfaced whole, amended): when SRT generation fails,
\* processSRT raises an error, no subtitle file is written, no completion is
\* reported, and the handler, once finished, has reported exactly one error
\* provided the main window has not been closed.
C13_FailureSurfacedWhole ==
  /\ GenerationFailureKept
  /\ (failedAt = "generation" /\ mainPc = "finished" /\ mainWindow) =>
       /\ sent[Len(sent)] = [channel |-> "transcription:error", payload |-> SRTFailedInfo]
       /\ \A k \in 1..(Len(sent) - 1) : sent[k].channel = "transcription:progress"

\* C13 witness: generation has failed on words that are no array and the
\* handler has finished with the window open.
C13_Witness ==
  /\ failedAt = "generation"
  /\ mainPc = "finished"
  /\ mainWindow
  /\ transcriptionResult.words = NotAnArray
  /\ Reported("transcription:error")

\* the API key the application holds: in memory or in the secure file
StoredKeys ==
  { config["elevenlabs_api_key"] }
    \cup (IF secureFile.exists THEN { secureFile.content.data.of } ELSE {})

\* C14 (key not exposed): nothing the main process sends to the renderer,
\* neither a field of the reply to 'config:get' nor the text of a complete
\* or error message (progress messages carry fixed stage names), is the
\* API key.
C14_KeyNotExposed ==
  /\ ~reply.none =>
       \A f \in DOMAIN reply.value \ { "default_char_limit" } :
         reply.value[f] \notin (StoredKeys \ { <<>> })
  /\ \A k \in 1..Len(sent) :
       sent[k].channel # "transcription:progress" =>
         sent[k].payload \notin (StoredKeys \ { <<>> })

\* the key of the last update, Undefined when the update had none
LastKey ==
  IF lastUpdates.none \/ "elevenlabs_api_key" \notin DOMAIN lastUpdates.value
  THEN Undefined
  ELSE lastUpdates.value["elevenlabs_api_key"]

C16_ErrorStep ==
  handled'.name = "error" =>
    /\ updateStatus'.checking = FALSE
    /\ updateStatus'.downloading = FALSE
    /\ updateStatus'.error = handled'.arg.value.message
    /\ updateStatus'.available = updateStatus.available
    /\ updateStatus'.downloaded = updateStatus.downloaded
    /\ updateStatus'.info = updateStatus.info
    /\ updateStatus'.progress = updateStatus.progress
    /\ updateWindow => statusSent' = << updateStatus' >>
    /\ ~updateWindow => statusSent' = << >>

CatchStep == handled'.name \in { "checkForUpdates:catch", "downloadUpdate:catch" }

\* the message the catch stores for what was thrown
FailureMessage(error) == IF error.isError THEN error.message ELSE "Unknown error"

\* the catch keeps every flag of the status and stores the message
CatchKeepsFlags ==
  /\ updateStatus'.error = FailureMessage(handled'.arg.value)
  /\ updateStatus'.checking = updateStatus.checking
  /\ updateStatus'.available = updateStatus.available
  /\ updateStatus'.downloading = updateStatus.downloading
  /\ updateStatus'.downloaded = updateStatus.downloaded
  /\ handled'.name = "checkForUpdates:catch" => checkPc' = "resolved"
  /\ handled'.name = "downloadUpdate:catch" => downloadPc' = "resolved"

C21_SpeakerKept ==
  ( AtWordWithCurrent /\ ~StartsNew )
  => currentSubtitle'.speaker = currentSubtitle.speaker

\* C21, the cues: the words of a cue that carry a speaker id all carry the
\* speaker id of the cue's first word.
C21_OneIdPerCue ==
  \A k \in 1..Len(members) :
    \A n \in 1..Len(members[k]) :
      Truthy(words[members[k][n]].speaker_id)
      => words[members[k][n]].speaker_id = FirstWord(k).speaker_id

\* C21 (speaker identity of a cue): the speaker of a cue is fixed by the
\* word that created it and no append changes it; in every cue all words
\* that carry a speaker id carry the same id, the one of the cue's first
\* word, whatever the speaker table.
C21_SpeakerIdentity == []C21_OneIdPerCue /\ [][C21_SpeakerKept]_vars

\* the last word the for loop has placed in the subtitle of index k
FinalWord(k) == words[members[k][Len(members[k])]]

\* C22 (last cue and short sequences): after stitching the last cue ends at
\* the end of its final word, and a sequence of no cue or of one cue comes
\* out of the stitching pass as it went in, whatever the cue text.
C22_LastCueAndShort ==
  pc = "done" =>
    /\ Len(subtitles) <= 1 => adjustedSRT = srtContent
    /\ Len(subtitles) >= 1 =>
         LET out == OutputCues(adjustedSRT)
         IN /\ Len(out) >= 1
            /\ out[Len(out)].end = formatTime(FinalWord(Len(members)).end)

\* the words come ordered by non-decreasing start
OrderedByStart == \A k \in 1..(Len(words) - 1) : words[k].start <= words[k + 1].start

\* C23 (stitching only extends): for words ordered by non-decreasing start,
\* every cue of the stitched output ends no earlier than the segmenter made
\* it end, that is no earlier than its last word ends.
C23_OnlyExtends ==
  ( pc = "done" /\ OrderedByStart ) =>
    LET out == OutputCues(adjustedSRT)
    IN \A k \in 1..Len(out) :
         LET n == DigitsValue(out[k].index)
         IN /\ n \in 1..Len(subtitles)
            /\ WellFormedTimestamp(out[k].end)
            /\ TsValueMs(out[k].end) >= subtitles[n].end \div TicksPerMs

\* C24 (time codec round trip): parseTime gives back every whole number of
\* milliseconds that formatTime has formatted, also from 100 hours on, and
\* throws on every string that is not a well-formed HH:MM:SS,mmm timestamp.
C24_RoundTrip ==
  codecPc = "parsed" =>
    /\ ( timeString = formatTime(seconds) /\ seconds % TicksPerMs = 0 )
       => parsed = Parsed(seconds)
    /\ ~WellFormedTimestamp(timeString) => parsed = InvalidTimeFormat

\* the stitching pass on the cue list itself: the end of every cue but the
\* last set to the start of the cue after it
StitchedCues(cues) ==
  [ k \in 1..Len(cues) |->
      IF k < Len(cues) THEN [cues[k] EXCEPT !.end = cues[k + 1].start]
      ELSE cues[k] ]

\* C25 (text round trip equals structured stitching): adjustTiming applied
\* to the serialized cues gives exactly the serialization of the cue list
\* in which each cue but the last ends at the start of its successor.
C25_TextEqualsStructured ==
  pc = "done" => adjustedSRT = convertToSRTFormat(StitchedCues(subtitles))

\* the positions of members, cue after cue
RECURSIVE Flatten(_)
Flatten(groups) ==
  IF groups = <<>> THEN <<>> ELSE Head(groups) \o Flatten(Tail(groups))

\* the texts the code reads from the words at the positions ps, joined by
\* one space
RECURSIVE JoinedWords(_)
JoinedWords(ps) ==
  IF Len(ps) = 1 THEN OrEmpty(words[ps[1]].word)
  ELSE JoinedWords(SubSeq(ps, 1, Len(ps) - 1))
         \o <<" ">> \o OrEmpty(words[ps[Len(ps)]].word)

\* C26 (word conservation): the segmenter partitions the input. The cues,
\* taken in order, hold the words 1, 2, ..., n of the input, each exactly
\* once and in input order; no cue is without a word; every cue spans from
\* its first word to its last word and its text has one piece per word; a
\* non-empty input gives between 1 and n cues.
C26_WordConservation ==
  pc \in { "adjust", "done" } =>
    LET placed == Flatten(members)
    IN /\ Len(subtitles) = Len(members)
       /\ Len(placed) = Len(words)
       /\ \A n \in 1..Len(placed) : placed[n] = n
       /\ \A k \in 1..Len(members) :
            /\ members[k] # <<>>
            /\ subtitles[k].index = k
            /\ subtitles[k].start = FirstWord(k).start
            /\ subtitles[k].end = FinalWord(k).end
            /\ subtitles[k].text = JoinedWords(members[k])
       /\ words # <<>> => Len(subtitles) \in 1..Len(words)

\* C26 witness: three words have been placed in two cues, one of them
\* holding two words.
C26_Witness ==
  /\ pc = "done"
  /\ Len(words) = 3
  /\ Len(subtitles) = 2
  /\ \E k \in 1..2 : Len(members[k]) = 2

\* the progress events of handleTranscriptionStart, in the order of the code
Stages ==
  << [stage |-> "validation", percentage |-> 10],
     [stage |-> "upload", percentage |-> 30],
     [stage |-> "processing", percentage |-> 70],
     [stage |-> "srt-generation", percentage |-> 90],
     [stage |-> "complete", percentage |-> 100] >>

IsProgress(m) == m.channel = "transcription:progress"

\* C27 (pipeline ordering): the handler validates, then uploads, then
\* generates, each step only after the one before it succeeded; its progress
\* events come in the order validation, upload, processing, srt-generation,
\* complete with the percentages 10, 30, 70, 90, 100; and
\* 'transcription:complete' is sent only after the subtitle file has been
\* written, as the last message, carrying the path of that file.
C27_PipelineOrder ==
  LET progress == SelectSeq(sent, IsProgress)
  IN /\ \A k \in 1..Len(progress) :
          \E n \in 1..Len(Stages) : progress[k].payload = Stages[n]
     /\ \A k \in 1..(Len(progress) - 1) :
          progress[k].payload.percentage < progress[k + 1].payload.percentage
     /\ mainWindow => \A k \in 1..Len(progress) : progress[k].payload = Stages[k]
     /\ mainPc \in { "upload", "processSRT" } => failedAt = "none"
     /\ failedAt \in { "validation", "upload" } =>
          transcriptionResult = None /\ pc = "idle"
     /\ pc # "idle" =>
          transcriptionResult # None /\ failedAt \in { "none", "write" }
     /\ failedAt # "none" => ~Reported("transcription:complete")
     /\ \A k \in 1..Len(sent) :
          sent[k].channel = "transcription:complete" =>
            /\ k = Len(sent)
            /\ pc = "done"
            /\ outputFile = File(adjustedSRT)
            /\ outputPath = createOutputPath(filePath)
            /\ sent[k].payload = outputPath

\* C27 witness: a request has run through all five stages with the window
\* open and its completion has been sent.
C27_Witness ==
  /\ mainPc = "finished"
  /\ mainWindow
  /\ words = ScenarioCWords
  /\ Len(sent) = 6
  /\ sent[6].channel = "transcription:complete"

\* a terminal event of a request
IsTerminal(m) == m.channel \in { "transcription:complete", "transcription:error" }

\* the renderer has handled a terminal event
TerminalHandled == \E k \in 1..delivered : IsTerminal(sent[k])

\* C28 (exactly one terminal event): a request never has more than one of
\* 'transcription:complete' and 'transcription:error', and no message follows
\* the terminal one; a request whose handler has finished with the main
\* window in place has exactly one. In the renderer isTranscribing is true
\* from startTranscription on and false once the terminal event is handled.
C28_OneTerminalEvent ==
  /\ \A k \in 1..Len(sent) : IsTerminal(sent[k]) => k = Len(sent)
  /\ ( mainPc = "finished" /\ mainWindow ) =>
       /\ sent # <<>>
       /\ IsTerminal(sent[Len(sent)])
  /\ mainPc # "finished" => \A k \in 1..Len(sent) : ~IsTerminal(sent[k])
  /\ ( rendererPc = "invoked" /\ ~TerminalHandled ) => isTranscribing
  /\ TerminalHandled => ~isTranscribing /\ result # None
  /\ rendererPc = "idle" => ~isTranscribing /\ mainPc = "idle"

\* C28 witness: the renderer has handled the error that ended a request
\* whose upload failed.
C28_Witness ==
  /\ mainPc = "finished"
  /\ failedAt = "upload"
  /\ delivered = Len(sent)
  /\ TerminalHandled
  /\ ~isTranscribing

\* C29 (stitching is idempotent): adjustTiming applied to what adjustTiming
\* has returned gives the same text again.
C29_Idempotent ==
  pc = "done" => adjustTiming(adjustedSRT) = adjustedSRT

\* this step leaves the subtitles of every input file in place, or replaces
\* them by subtitles of the same input file
KeepsOwners ==
  \A p \in OutputPaths :
    disk[p].exists => ( disk'[p].exists /\ disk'[p].from = disk[p].from )

\* C30 (output files do not collide): no run of processSRT writes over the
\* subtitle file that a run for a different input file has written.
C30_NoCollision == [][KeepsOwners]_vars

====
